---- MODULE Spec2Model ----
(***************************************************************************)
(* A model of the sigma-tracker front end (src/src/App.jsx).               *)
(*                                                                         *)
(* Two specifications share the module's variables:                        *)
(*   Spec       the App component as an event-driven state machine: the    *)
(*              ticker loads (loadTicker), the debounced ticker search     *)
(*              (handleInputChange, searchTickers) and the handlers that   *)
(*              start them (selectTicker, handleKeyDown, the focus and     *)
(*              blur handlers of the input);                               *)
(*   SpecStats  the statistics helpers (computeReturns,                    *)
(*              computeStatsFullSample, computeStatsRolling) applied to    *)
(*              price series drawn from bounded sets.                      *)
(*                                                                         *)
(* JavaScript runs each handler and each promise continuation to           *)
(* completion on one thread, so every action below is one handler or one   *)
(* continuation, and the state between two actions is what a render sees.  *)
(***************************************************************************)
EXTENDS Integers, Sequences, FiniteSets, TLC

VARIABLES
    \* ---- App state (useState, App.jsx 115-127)
    ticker, inputVal, priceData, loading, error,
    searchResults, showSearch, startDate, endDate,
    \* ---- timers and requests in flight
    mounted,        \* the mount effect (App.jsx 152) has run
    searchTimeout,  \* the pending debounce timer: <<>> or <<[query, left]>>
    blurTimers,     \* the number of pending onBlur timers
    loads,          \* fetchHistory calls in flight: [id, sym]
    searches,       \* searchTickers calls in flight: [id, query]
    \* ---- history (not program state; the claims are stated with it)
    initiated,      \* the symbols of the loadTicker calls, in call order
    outcome,        \* per load id: "pending", "ok" or "fail"
    lastResolved,   \* id of the load that resolved last (0: none yet)
    tickerFrom,     \* id of the load whose response set ticker (0: none)
    rangeFrom,      \* id of the load whose response set the date range
    nSearch,        \* searchTickers calls issued so far
    \* ---- the statistics pipeline (SpecStats)
    prices, period, sigmaMode, rollingWindow, returns, stats, stage,
    \* ---- the range filter and the signal aggregates (SpecView)
    threshold,        \* useState(2.0), set by the slider
    filteredData,     \* the filteredData memo
    beyondThreshold,  \* the signal count
    pctBeyond,        \* the toFixed(1) string, held as its number of tenths
    signalList        \* the rows of the signal list, in display order

uiVars == <<ticker, inputVal, priceData, loading, error, searchResults,
            showSearch, startDate, endDate, mounted, searchTimeout,
            blurTimers, loads, searches, initiated, outcome, lastResolved,
            tickerFrom, rangeFrom, nSearch>>

viewVars == <<threshold, filteredData, beyondThreshold, pctBeyond, signalList>>

statVars == <<prices, period, sigmaMode, rollingWindow, returns, stats, stage,
              viewVars>>

vars == <<uiVars, statVars>>

(***************************************************************************)
(* Bounds of the model.                                                    *)
(***************************************************************************)
\* loadTicker calls in one behaviour (the mount effect's included)
MaxLoads == 2
\* search requests sent in one behaviour
MaxSearches == 1
\* onBlur timers pending at once
MaxBlurs == 1
\* the clock's step, in ms
TickMs == 100

(***************************************************************************)
(* Program constants.                                                      *)
(***************************************************************************)
\* setTimeout(..., 300) of handleInputChange
DebounceMs == 300
\* useState("") of startDate/endDate: the empty date string.  A date
\* "YYYY-MM-DD" is modelled by its day number (> 0): for such strings the
\* string order of the code is the order of the days.
NoDate == 0

(***************************************************************************)
(* JavaScript numbers.  The statistics helpers compute in binary floating  *)
(* point: every +, -, *, / and Math.sqrt rounds its exact result to the    *)
(* nearest representable number, ties to even.  The model keeps that       *)
(* rounding and shortens the significand from 53 bits to Precision bits;   *)
(* the exponent range is unbounded (the prices are market prices, far from *)
(* overflow and underflow).  A finite number is m * 2^e with m = 0, e = 0  *)
(* or 2^(Precision-1) <= |m| < 2^Precision.  Division by zero gives        *)
(* Infinity or NaN as in IEEE 754.                                         *)
(***************************************************************************)
\* bits of the significand
Precision == 4

Fin(m, e) == [s |-> "fin", m |-> m, e |-> e]
Zero == Fin(0, 0)
NaN == [s |-> "nan", m |-> 0, e |-> 0]
\* +Infinity (sign 1) and -Infinity (sign -1)
Inf(sign) == [s |-> "inf", m |-> sign, e |-> 0]

IsFinite(x) == x.s = "fin"
IsZero(x) == x.s = "fin" /\ x.m = 0

Abs(n) == IF n < 0 THEN -n ELSE n
Sign(n) == IF n < 0 THEN -1 ELSE IF n > 0 THEN 1 ELSE 0

RECURSIVE BitLen(_)
BitLen(n) == IF n = 0 THEN 0 ELSE 1 + BitLen(n \div 2)

\* the number nearest to n * 2^e (n any integer), ties to even
Round(n, e) ==
    IF n = 0 THEN Zero
    ELSE LET a == Abs(n)
             L == BitLen(a)
         IN IF L <= Precision
              THEN Fin(Sign(n) * a * 2^(Precision - L), e - (Precision - L))
              ELSE LET sh == L - Precision
                       q == a \div 2^sh
                       r == a % 2^sh
                       half == 2^(sh - 1)
                       up == r > half \/ (r = half /\ q % 2 = 1)
                       q2 == IF up THEN q + 1 ELSE q
                   IN IF q2 = 2^Precision
                        THEN Fin(Sign(n) * 2^(Precision - 1), e + sh + 1)
                        ELSE Fin(Sign(n) * q2, e + sh)

\* the number nearest to the integer n (n itself when |n| < 2^Precision)
FromInt(n) == Round(n, 0)

\* a length or a count, used as a divisor: the code holds it exactly (it is
\* far below 2^53), so the model keeps it exact too
Count(n) == Fin(n, 0)

Neg(x) == [x EXCEPT !.m = -x.m]

\* x + y
Add(x, y) ==
    IF x.s = "nan" \/ y.s = "nan" THEN NaN
    ELSE IF x.s = "inf" /\ y.s = "inf" THEN (IF x.m = y.m THEN x ELSE NaN)
    ELSE IF x.s = "inf" THEN x
    ELSE IF y.s = "inf" THEN y
    ELSE IF x.m = 0 THEN y
    ELSE IF y.m = 0 THEN x
    ELSE IF x.e - y.e >= Precision + 2 THEN x
    ELSE IF y.e - x.e >= Precision + 2 THEN y
    ELSE IF x.e >= y.e THEN Round(x.m * 2^(x.e - y.e) + y.m, y.e)
    ELSE Round(x.m + y.m * 2^(y.e - x.e), x.e)

\* x - y
Sub(x, y) == Add(x, Neg(y))

\* x * y
Mul(x, y) ==
    IF x.s = "nan" \/ y.s = "nan" THEN NaN
    ELSE IF x.s = "inf" \/ y.s = "inf"
      THEN (IF x.m = 0 \/ y.m = 0 THEN NaN ELSE Inf(Sign(x.m) * Sign(y.m)))
    ELSE Round(x.m * y.m, x.e + y.e)

\* x / y
Div(x, y) ==
    IF x.s = "nan" \/ y.s = "nan" THEN NaN
    ELSE IF x.s = "inf"
      THEN (IF y.s = "inf" THEN NaN
            ELSE Inf(x.m * (IF y.m < 0 THEN -1 ELSE 1)))
    ELSE IF y.s = "inf" THEN Zero
    ELSE IF y.m = 0 THEN (IF x.m = 0 THEN NaN ELSE Inf(Sign(x.m)))
    ELSE IF x.m = 0 THEN Zero
    ELSE LET d == Precision + 2 + BitLen(Abs(y.m)) - BitLen(Abs(x.m))
             k == IF d > 0 THEN d ELSE 0
             num == Abs(x.m) * 2^k
             q == num \div Abs(y.m)
             sticky == IF num % Abs(y.m) = 0 THEN 0 ELSE 1
         IN Round(Sign(x.m) * Sign(y.m) * (2 * q + sticky), x.e - y.e - k - 1)

\* Math.sqrt(x)
Sqrt(x) ==
    IF x.s = "nan" THEN NaN
    ELSE IF x.s = "inf" THEN (IF x.m > 0 THEN x ELSE NaN)
    ELSE IF x.m < 0 THEN NaN
    ELSE IF x.m = 0 THEN Zero
    ELSE LET k == IF (x.e - (Precision + 2)) % 2 = 0
                    THEN Precision + 2 ELSE Precision + 3
             a == x.m * 2^k
             r == CHOOSE c \in 0..2^(Precision + 3) :
                      c * c <= a /\ a < (c + 1) * (c + 1)
             sticky == IF r * r = a THEN 0 ELSE 1
         IN Round(2 * r + sticky, (x.e - k) \div 2 - 1)

\* Math.abs(x)
MathAbs(x) == [x EXCEPT !.m = Abs(@)]

\* |x| < |y| for finite numbers (a non-zero significand has Precision bits)
MagLt(x, y) ==
    IF y.m = 0 THEN FALSE
    ELSE IF x.m = 0 THEN TRUE
    ELSE x.e < y.e \/ (x.e = y.e /\ Abs(x.m) < Abs(y.m))

\* x < y (false when either is NaN)
Lt(x, y) ==
    IF x.s = "nan" \/ y.s = "nan" THEN FALSE
    ELSE IF x.s = "inf" THEN x.m < 0 /\ ~(y.s = "inf" /\ y.m < 0)
    ELSE IF y.s = "inf" THEN y.m > 0
    ELSE IF Sign(x.m) # Sign(y.m) THEN Sign(x.m) < Sign(y.m)
    ELSE IF x.m > 0 THEN MagLt(x, y)
    ELSE MagLt(y, x)

\* x >= y (false when either is NaN)
Geq(x, y) == x.s # "nan" /\ y.s # "nan" /\ ~Lt(x, y)

\* Number.prototype.toFixed(1) of a finite x >= 0: the integer n for which
\* n / 10 is nearest to x, the larger n on a tie; the string is n / 10
\* written with one decimal ("4.0" is 40)
ToFixed1(x) ==
    IF x.m = 0 THEN 0
    ELSE IF x.e >= 0 THEN 10 * x.m * 2^x.e
    ELSE IF -x.e > 20 THEN 0
    ELSE (20 * x.m + 2^(-x.e)) \div 2^(1 - x.e)

(***************************************************************************)
(* The environment: what the user types and what the proxy answers.        *)
(***************************************************************************)
\* values of the input element's change event
InputVals == {"", "a"}

\* String.prototype.toUpperCase on the values above
ToUpperCase(val) == IF val = "a" THEN "A" ELSE val

\* the prices a history response carries ({date, close} points): none, or
\* two trading days
HistorySeries ==
    { <<>>,
      << [date |-> 1, close |-> FromInt(2)],
         [date |-> 2, close |-> FromInt(3)] >> }

\* why a fetchHistory call throws: fetch rejects, or res.ok is false
FailureReasons == {"network", "status"}

\* quote lists a search response carries (the symbols of the quotes)
QuoteLists == { <<>>, <<"A">>, <<"A", "B">> }

\* the JSON of a successful history response; req is the identity of the
\* response object (the load that fetched it)
HistoryResponse(l, ps) == [req |-> l.id, ticker |-> l.sym, prices |-> ps]

\* a message that carries the caught error's own text
CouldNotLoadWithDetail(sym, reason) ==
    [text |-> "Could not load. Check the ticker and try again.",
     sym |-> sym, detail |-> reason]

\* the message of loadTicker's catch block, which has the caught error
\* (reason) in scope and does not use it
CouldNotLoad(sym, reason) ==
    [text |-> "Could not load. Check the ticker and try again.",
     sym |-> sym, detail |-> ""]

(***************************************************************************)
(* Init: the component after construction (the useState initial values).   *)
(***************************************************************************)
InitUI ==
    /\ ticker = "SPY"
    /\ inputVal = "SPY"
    /\ priceData = <<>>          \* null
    /\ loading = FALSE
    /\ error = <<>>              \* null
    /\ searchResults = <<>>
    /\ showSearch = FALSE
    /\ startDate = NoDate
    /\ endDate = NoDate
    /\ mounted = FALSE
    /\ searchTimeout = <<>>
    /\ blurTimers = 0
    /\ loads = {}
    /\ searches = {}
    /\ initiated = <<>>
    /\ outcome = <<>>
    /\ lastResolved = 0
    /\ tickerFrom = 0
    /\ rangeFrom = 0
    /\ nSearch = 0

(***************************************************************************)
(* loadTicker (App.jsx 133-150), split at its await.                       *)
(***************************************************************************)
\* loadTicker up to the await: setLoading(true); setError(null); the fetch
\* of fetchHistory(sym) is sent.  No request is tagged or cancelled.
LoadTickerStart(sym) ==
    /\ Len(initiated) < MaxLoads
    /\ loading' = TRUE
    /\ error' = <<>>
    /\ loads' = loads \cup {[id |-> Len(initiated) + 1, sym |-> sym]}
    /\ initiated' = Append(initiated, sym)
    /\ outcome' = Append(outcome, "pending")

\* the date range loadTicker sets from a response: the first and last date
\* when there are prices, else the range is left as it was
RangeAfter(ps, old) ==
    IF Len(ps) > 0 THEN <<ps[1].date, ps[Len(ps)].date>> ELSE old

\* the catch block sets nothing but the error
PriceDataAfterFailureKept(old) == old

\* the catch block: setPriceData(null)
PriceDataAfterFailure(old) == <<>>

\* the continuation after a fulfilled fetchHistory: the try block's
\* setPriceData, setTicker, setStartDate, setEndDate, then finally
FetchHistoryFulfilled(l, ps) ==
    /\ l \in loads
    /\ ps \in HistorySeries
    /\ loads' = loads \ {l}
    /\ priceData' = << HistoryResponse(l, ps) >>
    /\ ticker' = l.sym
    /\ startDate' = RangeAfter(ps, <<startDate, endDate>>)[1]
    /\ endDate' = RangeAfter(ps, <<startDate, endDate>>)[2]
    /\ loading' = FALSE
    /\ tickerFrom' = l.id
    /\ rangeFrom' = IF Len(ps) > 0 THEN l.id ELSE rangeFrom
    /\ outcome' = [outcome EXCEPT ![l.id] = "ok"]
    /\ lastResolved' = l.id
    /\ UNCHANGED <<inputVal, error, searchResults, showSearch, mounted,
                   searchTimeout, blurTimers, searches, initiated, nSearch,
                   statVars>>

\* the continuation after a rejected fetchHistory (fetch rejected, or
\* res.ok false): the catch block, then finally.  Nothing is sent again.
FetchHistoryRejected(l, reason) ==
    /\ l \in loads
    /\ reason \in FailureReasons
    /\ loads' = loads \ {l}
    /\ error' = << CouldNotLoad(l.sym, reason) >>
    /\ priceData' = PriceDataAfterFailure(priceData)
    /\ loading' = FALSE
    /\ outcome' = [outcome EXCEPT ![l.id] = "fail"]
    /\ lastResolved' = l.id
    /\ UNCHANGED <<ticker, inputVal, searchResults, showSearch, startDate,
                   endDate, mounted, searchTimeout, blurTimers, searches,
                   initiated, tickerFrom, rangeFrom, nSearch, statVars>>

\* useEffect(() => { loadTicker("SPY"); }, []) (App.jsx 152)
Mount ==
    /\ ~mounted
    /\ mounted' = TRUE
    /\ LoadTickerStart("SPY")
    /\ UNCHANGED <<ticker, inputVal, priceData, searchResults, showSearch,
                   startDate, endDate, searchTimeout, blurTimers, searches,
                   lastResolved, tickerFrom, rangeFrom, nSearch, statVars>>

(***************************************************************************)
(* The ticker input (App.jsx 154-181, 322-325).                            *)
(***************************************************************************)
\* handleInputChange(val): the pending timer is cleared; a non-empty value
\* arms a new one, an empty value clears the result list at once
HandleInputChange(val) ==
    /\ mounted
    /\ val \in InputVals
    /\ inputVal' = ToUpperCase(val)
    /\ IF val # ""
         THEN /\ searchTimeout' = << [query |-> val, left |-> DebounceMs] >>
              /\ UNCHANGED <<searchResults, showSearch>>
         ELSE /\ searchTimeout' = <<>>
              /\ searchResults' = <<>>
              /\ showSearch' = FALSE
    /\ UNCHANGED <<ticker, priceData, loading, error, startDate, endDate,
                   mounted, blurTimers, loads, searches, initiated, outcome,
                   lastResolved, tickerFrom, rangeFrom, nSearch, statVars>>

\* the timer callback up to its await: searchTickers(val) sends the fetch
\* (val is non-empty here, so the early return of searchTickers is not taken)
SearchTimerFires ==
    /\ searchTimeout # <<>>
    /\ searchTimeout[1].left <= 0
    /\ nSearch < MaxSearches
    /\ searches' = searches \cup
                     {[id |-> nSearch + 1, query |-> searchTimeout[1].query]}
    /\ nSearch' = nSearch + 1
    /\ searchTimeout' = <<>>
    /\ UNCHANGED <<ticker, inputVal, priceData, loading, error, searchResults,
                   showSearch, startDate, endDate, mounted, blurTimers, loads,
                   initiated, outcome, lastResolved, tickerFrom, rangeFrom,
                   statVars>>

\* the continuation after searchTickers resolves, with the quotes of the
\* response or with [] when res.ok is false: setSearchResults(results);
\* setShowSearch(true), whatever the input holds by now
SearchFulfilled(s, quotes) ==
    /\ s \in searches
    /\ quotes \in QuoteLists
    /\ searches' = searches \ {s}
    /\ searchResults' = quotes
    /\ showSearch' = TRUE
    /\ UNCHANGED <<ticker, inputVal, priceData, loading, error, startDate,
                   endDate, mounted, searchTimeout, blurTimers, loads,
                   initiated, outcome, lastResolved, tickerFrom, rangeFrom,
                   nSearch, statVars>>

\* fetch rejects inside searchTickers: the callback's promise rejects and
\* no state is set
SearchRejected(s) ==
    /\ s \in searches
    /\ searches' = searches \ {s}
    /\ UNCHANGED <<ticker, inputVal, priceData, loading, error, searchResults,
                   showSearch, startDate, endDate, mounted, searchTimeout,
                   blurTimers, loads, initiated, outcome, lastResolved,
                   tickerFrom, rangeFrom, nSearch, statVars>>

\* the symbols of a quote list
Symbols(quotes) == { quotes[i] : i \in 1..Len(quotes) }

\* selectTicker(sym): onMouseDown of a row of the result list, which is
\* rendered when showSearch && searchResults.length > 0
SelectTicker(sym) ==
    /\ mounted
    /\ showSearch
    /\ sym \in Symbols(searchResults)
    /\ inputVal' = sym
    /\ showSearch' = FALSE
    /\ searchResults' = <<>>
    /\ LoadTickerStart(sym)
    /\ UNCHANGED <<ticker, priceData, startDate, endDate, mounted,
                   searchTimeout, blurTimers, searches, lastResolved,
                   tickerFrom, rangeFrom, nSearch, statVars>>

\* handleKeyDown with e.key === "Enter"
HandleKeyDownEnter ==
    /\ mounted
    /\ showSearch' = FALSE
    /\ LoadTickerStart(inputVal)
    /\ UNCHANGED <<ticker, inputVal, priceData, searchResults, startDate,
                   endDate, mounted, searchTimeout, blurTimers, searches,
                   lastResolved, tickerFrom, rangeFrom, nSearch, statVars>>

\* onFocus: if (searchResults.length) setShowSearch(true)
HandleFocus ==
    /\ mounted
    /\ Len(searchResults) > 0
    /\ showSearch' = TRUE
    /\ UNCHANGED <<ticker, inputVal, priceData, loading, error, searchResults,
                   startDate, endDate, mounted, searchTimeout, blurTimers,
                   loads, searches, initiated, outcome, lastResolved,
                   tickerFrom, rangeFrom, nSearch, statVars>>

\* onBlur: setTimeout(() => setShowSearch(false), 200).  The timer is not
\* on the model's clock: once armed it fires at some later step.
HandleBlur ==
    /\ mounted
    /\ blurTimers < MaxBlurs
    /\ blurTimers' = blurTimers + 1
    /\ UNCHANGED <<ticker, inputVal, priceData, loading, error, searchResults,
                   showSearch, startDate, endDate, mounted, searchTimeout,
                   loads, searches, initiated, outcome, lastResolved,
                   tickerFrom, rangeFrom, nSearch, statVars>>

\* a blur timer's callback
BlurTimerFires ==
    /\ blurTimers > 0
    /\ blurTimers' = blurTimers - 1
    /\ showSearch' = FALSE
    /\ UNCHANGED <<ticker, inputVal, priceData, loading, error, searchResults,
                   startDate, endDate, mounted, searchTimeout, loads, searches,
                   initiated, outcome, lastResolved, tickerFrom, rangeFrom,
                   nSearch, statVars>>

\* time passes: TickMs elapse while the debounce timer is pending and not
\* due (a due timer's callback runs before later time is observed)
Tick ==
    /\ searchTimeout # <<>>
    /\ searchTimeout[1].left > 0
    /\ searchTimeout' = << [searchTimeout[1] EXCEPT !.left = @ - TickMs] >>
    /\ UNCHANGED <<ticker, inputVal, priceData, loading, error, searchResults,
                   showSearch, startDate, endDate, mounted, blurTimers, loads,
                   searches, initiated, outcome, lastResolved, tickerFrom,
                   rangeFrom, nSearch, statVars>>

Next ==
    \/ Mount
    \/ \E l \in loads, ps \in HistorySeries : FetchHistoryFulfilled(l, ps)
    \/ \E l \in loads, r \in FailureReasons : FetchHistoryRejected(l, r)
    \/ \E val \in InputVals : HandleInputChange(val)
    \/ SearchTimerFires
    \/ \E s \in searches, q \in QuoteLists : SearchFulfilled(s, q)
    \/ \E s \in searches : SearchRejected(s)
    \/ \E sym \in {"A", "B"} : SelectTicker(sym)
    \/ HandleKeyDownEnter
    \/ HandleFocus
    \/ HandleBlur
    \/ BlurTimerFires
    \/ Tick

(***************************************************************************)
(* The statistics helpers (App.jsx 18-80).  Array indices are the code's   *)
(* (from 0); a TLA+ sequence holds index i at position i + 1.              *)
(***************************************************************************)
Periods == {"daily", "weekly", "monthly"}

\* const step = period === "daily" ? 1 : period === "weekly" ? 5 : 21
Step(p) == IF p = "daily" THEN 1 ELSE IF p = "weekly" THEN 5 ELSE 21

\* an entry whose change is divided by the later close
ReturnAtOverLaterClose(ps, step, i) ==
    [ret |-> Div(Sub(ps[i + 1].close, ps[i - step + 1].close),
                 ps[i + 1].close),
     date |-> ps[i + 1].date]

\* the entry computeReturns pushes for index i
ReturnAt(ps, step, i) ==
    [ret |-> Div(Sub(ps[i + 1].close, ps[i - step + 1].close),
                 ps[i - step + 1].close),
     date |-> ps[i + 1].date]

\* for (let i = step; i < prices.length; i += step) returns.push(...)
RECURSIVE ComputeReturnsLoop(_, _, _, _)
ComputeReturnsLoop(ps, step, i, acc) ==
    IF i < Len(ps)
      THEN ComputeReturnsLoop(ps, step, i + step,
                              Append(acc, ReturnAt(ps, step, i)))
      ELSE acc

\* a loop that advances by one index: overlapping returns
RECURSIVE OverlappingLoop(_, _, _, _)
OverlappingLoop(ps, step, i, acc) ==
    IF i < Len(ps)
      THEN OverlappingLoop(ps, step, i + 1, Append(acc, ReturnAt(ps, step, i)))
      ELSE acc

ComputeReturnsOverlapping(ps, p) == OverlappingLoop(ps, Step(p), Step(p), <<>>)

ComputeReturns(ps, p) == ComputeReturnsLoop(ps, Step(p), Step(p), <<>>)

\* returns.map((r) => r.ret)
Rets(rs) == [k \in 1..Len(rs) |-> rs[k].ret]

\* vals.reduce((a, b) => a + b, 0): a left fold from 0
RECURSIVE SumFrom(_, _, _)
SumFrom(vals, k, acc) ==
    IF k > Len(vals) THEN acc ELSE SumFrom(vals, k + 1, Add(acc, vals[k]))

Sum(vals) == SumFrom(vals, 1, Zero)

\* vals.reduce((a, b) => a + (b - mean) ** 2, 0)
RECURSIVE SqDevFrom(_, _, _, _)
SqDevFrom(vals, mean, k, acc) ==
    IF k > Len(vals) THEN acc
    ELSE SqDevFrom(vals, mean, k + 1,
                   Add(acc, Mul(Sub(vals[k], mean), Sub(vals[k], mean))))

SqDevSum(vals, mean) == SqDevFrom(vals, mean, 1, Zero)

\* the population divisor: n
DivisorPopulation(n) == n

\* n - 1 || 1
Divisor(n) == IF n - 1 = 0 THEN 1 ELSE n - 1

\* std === 0 ? 0 : (ret - mean) / std, without the guard
ZScoreUnguarded(ret, mean, std) == Div(Sub(ret, mean), std)

\* std === 0 ? 0 : (ret - mean) / std
ZScore(ret, mean, std) ==
    IF IsZero(std) THEN Zero ELSE Div(Sub(ret, mean), std)

EmptyStats == [mean |-> Zero, std |-> Zero, data |-> <<>>]

\* computeStatsFullSample (App.jsx 31-42)
ComputeStatsFullSample(rs) ==
    LET n == Len(rs) IN
    IF n = 0 THEN EmptyStats
    ELSE LET vals == Rets(rs)
             mean == Div(Sum(vals), Count(n))
             variance == Div(SqDevSum(vals, mean), Count(Divisor(n)))
             std == Sqrt(variance)
         IN [mean |-> mean, std |-> std,
             data |-> [k \in 1..n |->
                         [ret |-> rs[k].ret, date |-> rs[k].date,
                          z |-> ZScore(rs[k].ret, mean, std)]]]

\* the slice of the steady region: returns.slice(i - windowSize, i)
SteadySliceInclusive(vals, w, i) == SubSeq(vals, i - w + 2, i + 1)

SteadySlice(vals, w, i) == SubSeq(vals, i - w + 1, i)

\* the slice of the warm-up region: returns.slice(0, i + 1)
WarmupSliceExclusive(vals, i) == SubSeq(vals, 1, i)

WarmupSlice(vals, i) == SubSeq(vals, 1, i + 1)

\* the body of computeStatsRolling's loop for index i: the point pushed
\* (App.jsx 52-74)
RollingPoint(rs, w, i) ==
    LET vals == Rets(rs) IN
    IF i < w
      THEN LET slice == WarmupSlice(vals, i)
               n == Len(slice)
               mean == Div(Sum(slice), Count(n))
               variance == IF n > 1
                             THEN Div(SqDevSum(slice, mean), Count(n - 1))
                             ELSE Zero
               std == Sqrt(variance)
           IN [ret |-> rs[i + 1].ret, date |-> rs[i + 1].date,
               z |-> ZScore(rs[i + 1].ret, mean, std),
               localMean |-> mean, localStd |-> std]
      ELSE LET slice == SteadySlice(vals, w, i)
               n == Len(slice)
               mean == Div(Sum(slice), Count(n))
               variance == Div(SqDevSum(slice, mean), Count(Divisor(n)))
               std == Sqrt(variance)
           IN [ret |-> rs[i + 1].ret, date |-> rs[i + 1].date,
               z |-> ZScore(rs[i + 1].ret, mean, std),
               localMean |-> mean, localStd |-> std]

\* rolling points under aggregates re-derived from the full series
ComputeStatsRollingRederived(rs, w) ==
    [mean |-> ComputeStatsFullSample(rs).mean,
     std |-> ComputeStatsFullSample(rs).std,
     data |-> [k \in 1..Len(rs) |-> RollingPoint(rs, w, k - 1)]]

\* computeStatsRolling (App.jsx 45-80).  The loop pushes one point per
\* index and adds its mean and std to totalMean and totalStd, from 0 and in
\* index order: the three accumulators do not read each other, so each is
\* written here as its own fold.
ComputeStatsRolling(rs, w) ==
    LET data == [k \in 1..Len(rs) |-> RollingPoint(rs, w, k - 1)]
        totalMean == Sum([k \in 1..Len(rs) |-> data[k].localMean])
        totalStd == Sum([k \in 1..Len(rs) |-> data[k].localStd])
        validCount == Len(rs)
    IN [mean |-> IF validCount > 0
                   THEN Div(totalMean, Count(validCount)) ELSE Zero,
        std |-> IF validCount > 0
                  THEN Div(totalStd, Count(validCount)) ELSE Zero,
        data |-> data]

(***************************************************************************)
(* The render pipeline (App.jsx 183-203, 608-610): the memos, the range    *)
(* filter and the signal aggregates.                                       *)
(***************************************************************************)
\* useMemo: rolling or full-sample normalization of all the returns
Normalize(rs, mode, w) ==
    IF mode = "rolling" THEN ComputeStatsRolling(rs, w)
    ELSE ComputeStatsFullSample(rs)

\* a filter with an exclusive lower bound
FilterRangeExclusive(data, sd, ed) ==
    IF sd = NoDate \/ ed = NoDate THEN data
    ELSE SelectSeq(data, LAMBDA d : d.date > sd /\ d.date <= ed)

\* a filter that also drops the point at index 0
FilterRangeSkipFirst(data, sd, ed) ==
    IF sd = NoDate \/ ed = NoDate \/ data = <<>> THEN data
    ELSE SelectSeq(Tail(data), LAMBDA d : d.date >= sd /\ d.date <= ed)

\* the filteredData memo: if (!startDate || !endDate) return allData;
\* allData.filter((d) => d.date >= startDate && d.date <= endDate)
FilterRange(data, sd, ed) ==
    IF sd = NoDate \/ ed = NoDate THEN data
    ELSE SelectSeq(data, LAMBDA d : d.date >= sd /\ d.date <= ed)

\* Math.abs(d.z) >= threshold
IsSignal(d, th) == Geq(MathAbs(d.z), th)

\* filteredData.filter((d) => Math.abs(d.z) >= threshold)
Signals(fd, th) == SelectSeq(fd, LAMBDA d : IsSignal(d, th))

\* beyondThreshold (App.jsx 202)
BeyondThreshold(fd, th) == Len(Signals(fd, th))

\* pctBeyond (App.jsx 203): ((beyondThreshold / length) * 100).toFixed(1),
\* or "0.0"
PctBeyond(fd, th) ==
    IF Len(fd) > 0
      THEN ToFixed1(Mul(Div(Count(BeyondThreshold(fd, th)), Count(Len(fd))),
                        Count(100)))
      ELSE 0

\* the comparator of the signal list: Math.abs(b.z) - Math.abs(a.z)
ByMagnitude(a, b) == Sub(MathAbs(b.z), MathAbs(a.z))

\* a sort that puts the later of two equal rows first
SortByMagnitudeTiesReversed(list) ==
    LET n == Len(list)
        Before(j, i) == LET c == ByMagnitude(list[j], list[i])
                        IN c.m < 0 \/ (c.m = 0 /\ j > i)
        Rank(i) == 1 + Cardinality({ j \in (1..n) \ {i} : Before(j, i) })
    IN [k \in 1..n |-> list[CHOOSE i \in 1..n : Rank(i) = k]]

\* Array.prototype.sort with the comparator above.  The sort is stable
\* (ECMAScript 2019): row j comes before row i when the comparator says so,
\* or when it returns 0 and j was before i.
SortByMagnitude(list) ==
    LET n == Len(list)
        Before(j, i) == LET c == ByMagnitude(list[j], list[i])
                        IN c.m < 0 \/ (c.m = 0 /\ j < i)
        Rank(i) == 1 + Cardinality({ j \in (1..n) \ {i} : Before(j, i) })
    IN [k \in 1..n |-> list[CHOOSE i \in 1..n : Rank(i) = k]]

\* filteredData.filter(...).sort(...) (App.jsx 608-610): filter returns a
\* new array and sort orders that array in place, so filteredData (source)
\* is as it was
SignalRows(fd, th) ==
    [rows |-> SortByMagnitude(Signals(fd, th)), source |-> fd]

(***************************************************************************)
(* The price series the helpers are applied to.                            *)
(***************************************************************************)
\* every series of at most MaxShort closes is tried
MaxShort == 4
\* the longest series (two monthly returns need 43 prices)
MaxLen == 43
\* the window sizes below the App's own
MaxWindow == 3

\* closes of the short series
ShortCloses == {1, 2, 3}

\* the date of the i-th price: trading days, weekends skipped
DateOf(i) == i + 2 * ((i - 1) \div 5)

\* a long series whose closes cycle through 1..7 in steps of a
CycleClose(a, i) == FromInt(1 + ((a * i) % 7))

\* a long series that grows by the same factor (8) every day
GrowthClose(i) == Fin(2^(Precision - 1), 3 * (i - 1) - (Precision - 1))

WithDates(closes) ==
    [i \in 1..Len(closes) |-> [date |-> DateOf(i), close |-> closes[i]]]

ShortSeries ==
    { WithDates([i \in 1..n |-> FromInt(cs[i])]) :
        n \in 0..MaxShort, cs \in [1..MaxShort -> ShortCloses] }

LongSeries ==
    { WithDates([i \in 1..n |-> CycleClose(a, i)]) :
        n \in (MaxShort + 1)..MaxLen, a \in {1, 3} }
    \cup { WithDates([i \in 1..n |-> GrowthClose(i)]) : n \in 2..MaxLen }

PriceSeries == ShortSeries \cup LongSeries

\* ROLLING_WINDOWS (App.jsx 100-105) start at 20; computeStatsRolling takes
\* any positive window size
WindowSizes == (1..MaxWindow) \cup {20}

(***************************************************************************)
(* The blocks the component renders (App.jsx 423-438, 639), from the memos *)
(* of the current state.                                                   *)
(***************************************************************************)
\* returns: [] while priceData is null, else computeReturns of its prices
RenderedReturns ==
    IF priceData = <<>> THEN <<>>
    ELSE ComputeReturns(priceData[1].prices, period)

\* filteredData of the render: the normalized returns, range-filtered
RenderedFiltered ==
    FilterRange(Normalize(RenderedReturns, sigmaMode, rollingWindow).data,
                startDate, endDate)

\* {loading && ...}
ShowsLoading == loading

\* {error && ...}
ShowsError == error # <<>>

\* {!loading && !error && filteredData.length > 0 && ...}
ShowsChart == ~loading /\ error = <<>> /\ Len(RenderedFiltered) > 0

\* {!loading && !error && filteredData.length === 0 && priceData && ...}
ShowsNoData ==
    ~loading /\ error = <<>> /\ Len(RenderedFiltered) = 0 /\ priceData # <<>>

(***************************************************************************)
(* SpecStats: the render pipeline of App.jsx 183-191 on a given series.    *)
(***************************************************************************)
\* the view before the first render: useState(2.0) and nothing derived
InitViewIdle ==
    /\ threshold = FromInt(2)
    /\ filteredData = <<>>
    /\ beyondThreshold = 0
    /\ pctBeyond = 0
    /\ signalList = <<>>

InitStatsIdle ==
    /\ prices = <<>>
    /\ period = "daily"
    /\ sigmaMode = "rolling"
    /\ rollingWindow = 60
    /\ returns = <<>>
    /\ stats = EmptyStats
    /\ stage = "idle"
    /\ InitViewIdle

InitStats ==
    /\ InitUI
    /\ prices \in PriceSeries
    /\ period \in Periods
    /\ sigmaMode \in {"full", "rolling"}
    /\ rollingWindow \in WindowSizes
    /\ sigmaMode = "full" => rollingWindow = 20
    /\ returns = <<>>
    /\ stats = EmptyStats
    /\ stage = "prices"
    /\ InitViewIdle

\* const returns = useMemo(() => computeReturns(priceData.prices, period))
MemoReturns ==
    /\ stage = "prices"
    /\ returns' = ComputeReturns(prices, period)
    /\ stage' = "returns"
    /\ UNCHANGED <<prices, period, sigmaMode, rollingWindow, stats, uiVars,
                   viewVars>>

\* useMemo: computeStatsFullSample(returns) when sigmaMode is not "rolling"
MemoStatsFullSample ==
    /\ stage = "returns"
    /\ sigmaMode # "rolling"
    /\ stats' = ComputeStatsFullSample(returns)
    /\ stage' = "stats"
    /\ UNCHANGED <<prices, period, sigmaMode, rollingWindow, returns, uiVars,
                   viewVars>>

\* useMemo: computeStatsRolling(returns, rollingWindow) in rolling mode
MemoStatsRolling ==
    /\ stage = "returns"
    /\ sigmaMode = "rolling"
    /\ stats' = ComputeStatsRolling(returns, rollingWindow)
    /\ stage' = "stats"
    /\ UNCHANGED <<prices, period, sigmaMode, rollingWindow, returns, uiVars,
                   viewVars>>

NextStats == MemoReturns \/ MemoStatsFullSample \/ MemoStatsRolling

SpecStats == InitStats /\ [][NextStats]_vars

(***************************************************************************)
(* SpecView: the pipeline followed by the range filter, the signal         *)
(* aggregates and the controls that change them (App.jsx 193-233, 361,     *)
(* 395-410, 608-610).  A handler's action includes the render its state    *)
(* change causes.                                                          *)
(***************************************************************************)
\* every series of at most MaxView closes is tried
MaxView == 2
\* the latest date the date inputs are set to
MaxDate == 3

\* closes whose full-sample z-scores are -1, 1 and 0: two points on the
\* boundary of the lowest threshold
BoundaryCloses == <<1, 1, 2, 3>>

\* closes with repeated returns: points with equal z-scores, and a later
\* point with a larger one
TieCloses == <<1, 2, 1, 2, 1, 3>>

ViewSeries ==
    { ps \in ShortSeries : Len(ps) <= MaxView }
    \cup { WithDates([i \in 1..Len(cs) |-> FromInt(cs[i])]) :
             cs \in {BoundaryCloses, TieCloses} }

\* the window size tried in SpecView
ViewWindows == {2}

\* values of the threshold slider (min 1, max 5, step 0.1)
Thresholds == {FromInt(1), FromInt(2)}

\* values of the date inputs: "" or a date
DateChoices == {NoDate} \cup (2..MaxDate)

\* the presets tried: 3M and All (6M, 1Y and 2Y differ from 3M in the
\* number of months only)
PresetMonths == {3, 999}

\* the state after loadTicker resolved with the series: the date range is
\* the one loadTicker set from it
InitView ==
    /\ ticker = "SPY"
    /\ inputVal = "SPY"
    /\ priceData = <<>>
    /\ loading = FALSE
    /\ error = <<>>
    /\ searchResults = <<>>
    /\ showSearch = FALSE
    /\ mounted = FALSE
    /\ searchTimeout = <<>>
    /\ blurTimers = 0
    /\ loads = {}
    /\ searches = {}
    /\ initiated = <<>>
    /\ outcome = <<>>
    /\ lastResolved = 0
    /\ tickerFrom = 0
    /\ rangeFrom = 0
    /\ nSearch = 0
    /\ prices \in ViewSeries
    /\ startDate = RangeAfter(prices, <<NoDate, NoDate>>)[1]
    /\ endDate = RangeAfter(prices, <<NoDate, NoDate>>)[2]
    /\ period \in Periods
    /\ Len(prices) <= Step("weekly") => period = "daily"
    /\ sigmaMode \in {"full", "rolling"}
    /\ rollingWindow \in ViewWindows
    /\ returns = <<>>
    /\ stats = EmptyStats
    /\ stage = "prices"
    /\ InitViewIdle

\* the rest of a render once filteredData is known: the signal count, the
\* percentage and the signal list
ViewAfter(fd, th) ==
    \E sr \in {SignalRows(fd, th)} :
       /\ filteredData' = sr.source
       /\ beyondThreshold' = BeyondThreshold(fd, th)
       /\ pctBeyond' = PctBeyond(fd, th)
       /\ signalList' = sr.rows

\* the filteredData memo and what the render derives from it
MemoFiltered ==
    /\ stage = "stats"
    /\ stage' = "view"
    /\ \E fd \in {FilterRange(stats.data, startDate, endDate)} :
          ViewAfter(fd, threshold)
    /\ UNCHANGED <<prices, period, sigmaMode, rollingWindow, returns, stats,
                   threshold, uiVars>>

\* a render that filters the returns before it normalizes them
RerenderFilterFirst(sd, ed, th) ==
    \E rs \in {FilterRange(ComputeReturns(prices, period), sd, ed)} :
    \E st \in {Normalize(rs, sigmaMode, rollingWindow)} :
       /\ returns' = rs
       /\ stats' = st
       /\ ViewAfter(st.data, th)

\* the render after a handler set the date range to (sd, ed) and the
\* threshold to th: the three memos in their order (returns; allData with
\* the aggregate mean and std; filteredData), each value computed once and
\* handed to the next, then the signal aggregates
Rerender(sd, ed, th) ==
    \E rs \in {ComputeReturns(prices, period)} :
    \E st \in {Normalize(rs, sigmaMode, rollingWindow)} :
    \E fd \in {FilterRange(st.data, sd, ed)} :
       /\ returns' = rs
       /\ stats' = st
       /\ ViewAfter(fd, th)

\* onChange of the From input: setStartDate(e.target.value)
SetStartDate(d) ==
    /\ d \in DateChoices
    /\ startDate' = d
    /\ UNCHANGED <<endDate, threshold>>

\* onChange of the To input: setEndDate(e.target.value)
SetEndDate(d) ==
    /\ d \in DateChoices
    /\ endDate' = d
    /\ UNCHANGED <<startDate, threshold>>

\* the date ranges setPreset(months) can set.  "All" is the whole series.
\* Otherwise the end is the last date and the start is the date `months`
\* calendar months before it (as toISOString prints it), or the first date
\* when that is earlier: with dates held as day numbers the calendar is not
\* modelled, and the start is any date from the first up to the day before
\* the last.
PresetRanges(ps, months) ==
    LET first == ps[1].date
        last == ps[Len(ps)].date
    IN IF months = 999 THEN { <<first, last>> }
       ELSE { <<IF startStr < first THEN first ELSE startStr, last>> :
                startStr \in (first - 1)..(last - 1) }

\* setPreset(months) (App.jsx 222-233)
SetPreset(months) ==
    /\ months \in PresetMonths
    /\ Len(prices) > 0
    /\ \E range \in PresetRanges(prices, months) :
          /\ startDate' = range[1]
          /\ endDate' = range[2]
    /\ UNCHANGED threshold

\* onChange of the slider: setThreshold(parseFloat(e.target.value))
SetThreshold(th) ==
    /\ th \in Thresholds
    /\ threshold' = th
    /\ UNCHANGED <<startDate, endDate>>

\* a control's handler runs, then React renders with the state it set
ControlStep ==
    /\ stage = "view"
    /\ \/ \E d \in DateChoices : SetStartDate(d)
       \/ \E d \in DateChoices : SetEndDate(d)
       \/ \E months \in PresetMonths : SetPreset(months)
       \/ \E th \in Thresholds : SetThreshold(th)
    /\ Rerender(startDate', endDate', threshold')
    /\ UNCHANGED <<ticker, inputVal, priceData, loading, error, searchResults,
                   showSearch, mounted, searchTimeout, blurTimers, loads,
                   searches, initiated, outcome, lastResolved, tickerFrom,
                   rangeFrom, nSearch, prices, period, sigmaMode,
                   rollingWindow, stage>>

NextView ==
    \/ MemoReturns
    \/ MemoStatsFullSample
    \/ MemoStatsRolling
    \/ MemoFiltered
    \/ ControlStep

SpecView == InitView /\ [][NextView]_vars

(***************************************************************************)
(* Spec: the App component.                                                *)
(***************************************************************************)
Init == InitUI /\ InitStatsIdle

Spec == Init /\ [][Next]_vars

(***************************************************************************)
(* Properties of Spec: ticker loads and ticker search.                     *)
(***************************************************************************)
LastLoad == Len(initiated)

\* C1: when loads overlap, the last-initiated load wins whatever the order
\* in which the fetches resolve: once every load has resolved and the last
\* one initiated (for a symbol no earlier load asked for) succeeded,
\* priceData and ticker are those of that load.
C1_LastInitiatedLoadWins ==
    ( /\ loads = {}
      /\ LastLoad >= 2
      /\ outcome[LastLoad] = "ok"
      /\ \A k \in 1..(LastLoad - 1) : initiated[k] # initiated[LastLoad] )
    => ( /\ priceData # <<>>
         /\ priceData[1].req = LastLoad
         /\ ticker = initiated[LastLoad] )

\* C2: the search is debounced and stale-safe: a search request is sent
\* only by a debounce timer that ran its full DebounceMs since the last
\* input change, and the response of a search whose query is no longer the
\* current input leaves searchResults and showSearch as they are.
C2_SearchDebouncedAndStaleSafe ==
    [][ /\ \A s \in searches' \ searches :
             /\ searchTimeout # <<>>
             /\ searchTimeout[1].left <= 0
             /\ searchTimeout[1].query = s.query
        /\ \A s \in searches \ searches' :
             ToUpperCase(s.query) # inputVal
               => UNCHANGED <<searchResults, showSearch>> ]_vars

\* C3: the current-ticker slot is replaced atomically: whenever priceData
\* holds a response, ticker and the date range come from that same
\* response (a response without prices has no dates to give: the range is
\* then the empty one).
C3_CurrentTickerSlotAtomic ==
    priceData # <<>>
    => ( /\ tickerFrom = priceData[1].req
         /\ ticker = priceData[1].ticker
         /\ IF Len(priceData[1].prices) > 0
              THEN /\ rangeFrom = priceData[1].req
                   /\ startDate = priceData[1].prices[1].date
                   /\ endDate =
                        priceData[1].prices[Len(priceData[1].prices)].date
              ELSE rangeFrom = priceData[1].req
                   \/ (startDate = NoDate /\ endDate = NoDate) )

\* C4: a failed fetch is terminal for its load: the step that resolves a
\* load as failed sends no new fetch, sets priceData to null, sets error to
\* the message naming the requested ticker with no detail of the caught
\* error, and resets loading.
C4_FailedFetchIsTerminal ==
    [][ \A l \in loads :
          (l \notin loads' /\ outcome'[l.id] = "fail")
          => ( /\ loads' = loads \ {l}
               /\ initiated' = initiated
               /\ priceData' = <<>>
               /\ Len(error') = 1
               /\ error'[1].sym = l.sym
               /\ error'[1].detail = ""
               /\ loading' = FALSE ) ]_vars

\* a load failed after an earlier one had succeeded: the error is shown
\* and the earlier series is gone
C4_Witness ==
    /\ lastResolved # 0
    /\ outcome[lastResolved] = "fail"
    /\ \E k \in 1..LastLoad : outcome[k] = "ok"
    /\ error # <<>>
    /\ error[1].sym = initiated[lastResolved]
    /\ priceData = <<>>
    /\ ~loading

\* C11: an empty price series is valid input, not an error: computeReturns
\* of it is the empty sequence for every period, computeStatsFullSample of
\* the empty sequence is {mean: 0, std: 0, data: []}, and once a load that
\* succeeded with zero price points is the most recently resolved one and
\* nothing is in flight, error is null and the "no data in range" block is
\* what the render shows, not the error block.
C11_EmptySeriesValid ==
    /\ \A p \in Periods : ComputeReturns(<<>>, p) = <<>>
    /\ ComputeStatsFullSample(<<>>) = [mean |-> Zero, std |-> Zero, data |-> <<>>]
    /\ ( /\ loads = {}
         /\ lastResolved # 0
         /\ outcome[lastResolved] = "ok"
         /\ priceData # <<>>
         /\ priceData[1].req = lastResolved
         /\ priceData[1].prices = <<>> )
       => ( /\ error = <<>>
            /\ ShowsNoData
            /\ ~ShowsError )

\* C19: the loading flag tracks the loads in flight: in every reachable
\* state, overlapping loads included, loading is true (the loading block
\* is rendered) while at least one loadTicker fetch has been started and
\* has not resolved, and false once no load is in flight.
C19_LoadingTracksInFlight ==
    ShowsLoading <=> (loads # {})

\* C20: error and data are mutually exclusive after any sequence of loads:
\* with no load in flight, error is non-null exactly when the most recently
\* resolved load failed, and priceData is then null; in no reachable state
\* is error non-null while priceData holds a loaded series.
C20_ErrorExcludesData ==
    /\ (loads = {} /\ lastResolved # 0)
         => /\ ShowsError <=> (outcome[lastResolved] = "fail")
            /\ ShowsError => priceData = <<>>
    /\ (loads = {} /\ lastResolved = 0) => ~ShowsError
    /\ ~(ShowsError /\ priceData # <<>>)

(***************************************************************************)
(* Properties of SpecStats: the statistics helpers.                        *)
(***************************************************************************)
\* the step sizes the specification states
StatedStep == [daily |-> 1, weekly |-> 5, monthly |-> 21]

One == FromInt(1)

\* the returns (as computed) and the points (as normalized) of the state
NReturns == Len(returns)
Point(i) == stats.data[i + 1]

\* C5: a non-empty series of N prices with strictly ascending dates gives
\* exactly floor((N - 1) / step) returns, and their dates are strictly
\* ascending.
C5_ReturnCountAndOrder ==
    (stage # "prices" /\ Len(prices) >= 1)
    => ( /\ NReturns = (Len(prices) - 1) \div StatedStep[period]
         /\ \A k \in 1..(NReturns - 1) :
               returns[k].date < returns[k + 1].date )

\* a monthly series long enough for two returns
C5_Witness ==
    /\ stage = "returns"
    /\ period = "monthly"
    /\ NReturns = 2
    /\ \A k \in 1..(Len(prices) - 1) : prices[k].date < prices[k + 1].date

\* C6: the k-th return (k = 0, 1, ...) is taken over the non-overlapping
\* step ending at index i = (k + 1) * step: its ret is
\* (close[i] - close[i - step]) / close[i - step] and its date is date[i];
\* a series of at most step prices gives no return.
C6_ReturnFormula ==
    stage # "prices"
    => LET step == StatedStep[period] IN
       /\ Len(prices) <= step => returns = <<>>
       /\ \A k \in 0..(NReturns - 1) :
            LET i == (k + 1) * step IN
            /\ i < Len(prices)
            /\ returns[k + 1].date = prices[i + 1].date
            /\ returns[k + 1].ret =
                 Div(Sub(prices[i + 1].close, prices[i - step + 1].close),
                     prices[i - step + 1].close)

\* weekly returns over a series whose closes change from week to week
C6_Witness ==
    /\ stage = "returns"
    /\ period = "weekly"
    /\ NReturns >= 3
    /\ returns[1].ret # returns[2].ret
    /\ ~IsZero(returns[2].ret)

\* the returns with every ret from index i on replaced by another value
ChangedFrom(rs, i) ==
    [k \in 1..Len(rs) |->
       IF k - 1 < i THEN rs[k]
       ELSE [rs[k] EXCEPT !.ret = IF IsZero(@) THEN One ELSE Zero]]

\* C7: in the steady region (i >= windowSize) point i is normalized
\* against exactly the windowSize returns before it, returns[i-w .. i-1]:
\* a return sequence that agrees on every index below i gives the same
\* localMean and localStd at i, whatever it holds from i on.
C7_SteadyRegionCausal ==
    (stage = "stats" /\ sigmaMode = "rolling")
    => \A i \in rollingWindow..(NReturns - 1) :
         LET window == SubSeq(Rets(returns), i - rollingWindow + 1, i)
             other == RollingPoint(ChangedFrom(returns, i), rollingWindow, i)
         IN /\ Len(window) = rollingWindow
            /\ Point(i).localMean = Div(Sum(window), Count(rollingWindow))
            /\ other.localMean = Point(i).localMean
            /\ other.localStd = Point(i).localStd

\* the stated scenario: window 2 on 4 returns that differ, so that points
\* 2 and 3 are in the steady region with different windows
C7_Witness ==
    /\ stage = "stats"
    /\ sigmaMode = "rolling"
    /\ rollingWindow = 2
    /\ NReturns = 4
    /\ Point(2).localMean # Point(3).localMean
    /\ ~IsZero(Point(3).localStd)

UsedMean(i) == IF sigmaMode = "rolling" THEN Point(i).localMean ELSE stats.mean
UsedStd(i) == IF sigmaMode = "rolling" THEN Point(i).localStd ELSE stats.std

C10_IdenticalReturnsZeroStd ==
    ( /\ stage = "stats"
      /\ sigmaMode = "full"
      /\ NReturns >= 1
      /\ \A k \in 1..NReturns : returns[k].ret = returns[1].ret )
    => ( /\ IsZero(stats.std)
         /\ \A i \in 0..(NReturns - 1) : IsZero(Point(i).z) )

\* the ret values of the state's returns, and the sample divisor as stated
RetVals == [k \in 1..NReturns |-> returns[k].ret]
SampleDivisor == IF NReturns > 1 THEN NReturns - 1 ELSE 1

\* C12: for a non-empty return sequence of length n, computeStatsFullSample
\* returns mean = the arithmetic mean of all ret values (their sum over n)
\* and std = the square root of the sum of squared deviations from that
\* mean over n - 1 (over 1 when n = 1); every point's z comes from this one
\* mean and std, and data has the input's length, order, date and ret.
C12_FullSampleMeanStd ==
    (stage = "stats" /\ sigmaMode = "full" /\ NReturns >= 1)
    => ( /\ stats.mean = Div(Sum(RetVals), Count(NReturns))
         /\ stats.std =
              Sqrt(Div(SqDevSum(RetVals, stats.mean), Count(SampleDivisor)))
         /\ Len(stats.data) = NReturns
         /\ \A k \in 1..NReturns :
              /\ stats.data[k].date = returns[k].date
              /\ stats.data[k].ret = returns[k].ret
              /\ DOMAIN stats.data[k] = {"ret", "date", "z"}
              /\ stats.data[k].z =
                   IF IsZero(stats.std) THEN Zero
                   ELSE Div(Sub(returns[k].ret, stats.mean), stats.std) )

\* full-sample mode on at least three returns that differ: a std of its
\* own, points on both sides of the mean
C12_Witness ==
    /\ stage = "stats"
    /\ sigmaMode = "full"
    /\ NReturns >= 3
    /\ ~IsZero(stats.std)
    /\ \E k \in 1..NReturns : stats.data[k].z.m > 0
    /\ \E k \in 1..NReturns : stats.data[k].z.m < 0

\* the average of a field over the state's points: their sum, in order,
\* over their number
FieldAverage(f) ==
    Div(Sum([k \in 1..Len(stats.data) |-> stats.data[k][f]]),
        Count(Len(stats.data)))

\* C13: in rolling mode the aggregate mean and std of the result are the
\* simple averages (sum over the number of points) of all points'
\* localMean and localStd, 0 and 0 for an empty return sequence, and no
\* point's z is computed from them: each z is (ret - localMean) / localStd
\* of its own point, 0 when that localStd is 0.
C13_RollingAggregates ==
    (stage = "stats" /\ sigmaMode = "rolling")
    => /\ Len(stats.data) = NReturns
       /\ IF NReturns = 0
            THEN stats.mean = Zero /\ stats.std = Zero
            ELSE /\ stats.mean = FieldAverage("localMean")
                 /\ stats.std = FieldAverage("localStd")
       /\ \A k \in 1..NReturns :
            stats.data[k].z =
              IF IsZero(stats.data[k].localStd) THEN Zero
              ELSE Div(Sub(returns[k].ret, stats.data[k].localMean),
                       stats.data[k].localStd)

\* rolling mode where the averages are not the full-sample statistics and
\* a point's z differs from what the aggregates would give it
C13_Witness ==
    /\ stage = "stats"
    /\ sigmaMode = "rolling"
    /\ NReturns >= 3
    /\ stats.mean # ComputeStatsFullSample(returns).mean
    /\ stats.std # ComputeStatsFullSample(returns).std
    /\ ~IsZero(stats.std)
    /\ \E k \in 1..NReturns :
         /\ ~IsZero(stats.data[k].z)
         /\ stats.data[k].z
              # Div(Sub(returns[k].ret, stats.mean), stats.std)

\* rolling mode on a series too short for a single return
C13_EmptyWitness ==
    stage = "stats" /\ sigmaMode = "rolling" /\ NReturns = 0

(***************************************************************************)
(* Properties of SpecView: the range filter and the signal aggregates.     *)
(***************************************************************************)
\* the normalized points of the state, and whether both bounds are given
AllData == stats.data
Bounded == startDate # NoDate /\ endDate # NoDate

\* the indices of the normalized points whose date is within the bounds,
\* and the i-th smallest of them
InRange == { k \in 1..Len(AllData) :
               startDate <= AllData[k].date /\ AllData[k].date <= endDate }
NthInRange(i) ==
    CHOOSE k \in InRange : Cardinality({ j \in InRange : j <= k }) = i

\* C14: the range filter returns exactly the points with
\* startDate <= date <= endDate, both bounds inclusive, in their original
\* order, and returns the full input unchanged when startDate or endDate is
\* absent.
C14_RangeFilterInclusive ==
    stage = "view"
    => IF Bounded
         THEN /\ Len(filteredData) = Cardinality(InRange)
              /\ \A i \in 1..Len(filteredData) :
                   filteredData[i] = AllData[NthInRange(i)]
         ELSE filteredData = AllData

\* a range that keeps some points and drops others, with a point on each
\* bound
C14_Witness ==
    /\ stage = "view"
    /\ Bounded
    /\ Len(filteredData) >= 2
    /\ Len(filteredData) < Len(AllData)
    /\ filteredData[1].date = startDate
    /\ filteredData[Len(filteredData)].date = endDate

\* a cleared date input over a series with points
C14_UnboundedWitness ==
    stage = "view" /\ ~Bounded /\ Len(filteredData) >= 2

\* C15: range filtering is idempotent: for every normalized sequence and
\* every pair of bounds, filtering the filtered sequence again with the
\* same bounds returns the identical sequence.
C15_RangeFilterIdempotent ==
    stage = "view"
    => FilterRange(filteredData, startDate, endDate) = filteredData

\* a filtered sequence that lost points to the first filtering and still
\* has points for the second
C15_Witness ==
    /\ stage = "view"
    /\ Bounded
    /\ filteredData # <<>>
    /\ filteredData # AllData
    /\ filteredData = FilterRange(AllData, startDate, endDate)

\* the filtered points that are signals as stated: abs(z) >= threshold
StatedSignals ==
    { k \in 1..Len(filteredData) :
        ~Lt(MathAbs(filteredData[k].z), threshold) }

C16_CountOnly ==
    stage = "view" => beyondThreshold = Cardinality(StatedSignals)

\* a point exactly on the threshold is counted
C16_BoundaryWitness ==
    /\ stage = "view"
    /\ \E k \in 1..Len(filteredData) :
         MathAbs(filteredData[k].z) = threshold
    /\ beyondThreshold >= 1
    /\ beyondThreshold < Len(filteredData)

\* the place of a signal row in the filtered data (dates are unique)
PlaceOf(row) ==
    CHOOSE k \in 1..Len(filteredData) : filteredData[k].date = row.date

\* C17: the signal list contains exactly the filtered points with
\* abs(z) >= threshold, in descending order of abs(z), points of equal
\* abs(z) in their original (date) order; building it leaves the filtered
\* data the chart draws as the range filter returned it.
C17_SignalListSorted ==
    stage = "view"
    => /\ Len(signalList) = Cardinality(StatedSignals)
       /\ { signalList[i] : i \in 1..Len(signalList) }
            = { filteredData[k] : k \in StatedSignals }
       /\ \A i, j \in 1..Len(signalList) :
            i < j =>
              /\ ~Lt(MathAbs(signalList[i].z), MathAbs(signalList[j].z))
              /\ MathAbs(signalList[i].z) = MathAbs(signalList[j].z)
                   => PlaceOf(signalList[i]) < PlaceOf(signalList[j])
       /\ filteredData = FilterRange(AllData, startDate, endDate)
       /\ \A k \in 1..(Len(filteredData) - 1) :
            filteredData[k].date < filteredData[k + 1].date

\* a list of three signals that is not in date order, two of them of equal
\* abs(z), next to filtered points that are no signals
C17_Witness ==
    /\ stage = "view"
    /\ Len(signalList) >= 3
    /\ Len(signalList) < Len(filteredData)
    /\ \E i, j \in 1..Len(signalList) :
         i < j /\ signalList[i].date > signalList[j].date
    /\ \E i, j \in 1..Len(signalList) :
         /\ i < j
         /\ MathAbs(signalList[i].z) = MathAbs(signalList[j].z)

====
